---- MODULE Spec2Model ----
(***************************************************************************)
(* Model of ipgen (src/src/lib.rs): ip(name, cidr) derives an IPv6 address *)
(* from a name and a network, subnet(name) derives a 4 digit tag.          *)
(*                                                                         *)
(* Text is a sequence of one-character strings, so that slicing, joining   *)
(* and parsing are computed as the code computes them. An address value    *)
(* (Ipv6Addr) is a sequence of eight 16 bit segments.                      *)
(***************************************************************************)
EXTENDS Integers, Sequences, FiniteSets, TLC

(***************************************************************************)
(* Bounds of the explored inputs.                                          *)
(***************************************************************************)
\* names are byte strings over NameBytes of at most MaxNameLen bytes
MaxNameLen == 1
\* prefix lengths 0..MaxPrefixText are written after the "/" of a cidr text
MaxPrefixText == 130

NameBytes == {97, 98}

(***************************************************************************)
(* Program constants.                                                      *)
(***************************************************************************)
\* net.prefix() == 128
FULL_PREFIX == 128
\* prefix / 4: bits per hex character
BITS_PER_CHAR == 4
\* 32 - network_len: hex characters of an address
ADDRESS_CHARS == 32
\* hash(name, 2)
SUBNET_BYTES == 2

(***************************************************************************)
(* Characters and numbers.                                                 *)
(***************************************************************************)
LowerHex == <<"0","1","2","3","4","5","6","7","8","9","a","b","c","d","e","f">>
UpperHex == <<"0","1","2","3","4","5","6","7","8","9","A","B","C","D","E","F">>
DecDigits == <<"0","1","2","3","4","5","6","7","8","9">>

IsHexChar(c) == \E i \in 1..16 : LowerHex[i] = c \/ UpperHex[i] = c
HexVal(c) == (CHOOSE i \in 1..16 : LowerHex[i] = c \/ UpperHex[i] = c) - 1
IsDecChar(c) == \E i \in 1..10 : DecDigits[i] = c
DecVal(c) == (CHOOSE i \in 1..10 : DecDigits[i] = c) - 1

RECURSIVE Pow2(_)
Pow2(n) == IF n = 0 THEN 1 ELSE 2 * Pow2(n - 1)

\* format!("{:04x}", b) for a 16 bit b
Hex4(b) ==
    << LowerHex[((b \div 4096) % 16) + 1], LowerHex[((b \div 256) % 16) + 1],
       LowerHex[((b \div 16) % 16) + 1],   LowerHex[(b % 16) + 1] >>

\* format!("{:02x}", byte), the rendering of one digest byte by result_str
Hex2(b) == << LowerHex[((b \div 16) % 16) + 1], LowerHex[(b % 16) + 1] >>

\* parts.join("")
RECURSIVE Join(_)
Join(parts) == IF parts = <<>> THEN <<>> ELSE Head(parts) \o Join(Tail(parts))

\* &s[a..b]: the slice, or a panic when the range is not inside s
SliceOk(s, a, b) == a <= b /\ b <= Len(s)
Slice(s, a, b) == SubSeq(s, a + 1, b)

(***************************************************************************)
(* Ipv6Addr::from_str on the colon separated hexadecimal forms (full, or   *)
(* with one "::"); dotted-quad tails are not among the explored texts.     *)
(***************************************************************************)
\* s.split(sep) for a one character separator
RECURSIVE SplitOn(_, _)
SplitOn(s, sep) ==
    IF \A i \in 1..Len(s) : s[i] # sep THEN << s >>
    ELSE LET k == CHOOSE i \in 1..Len(s) : s[i] = sep /\ \A j \in 1..(i - 1) : s[j] # sep
         IN  << SubSeq(s, 1, k - 1) >> \o SplitOn(SubSeq(s, k + 1, Len(s)), sep)

IsGroup(g) == Len(g) \in 1..4 /\ \A i \in 1..Len(g) : IsHexChar(g[i])

RECURSIVE GroupVal(_)
GroupVal(g) == IF g = <<>> THEN 0 ELSE 16 * GroupVal(SubSeq(g, 1, Len(g) - 1)) + HexVal(g[Len(g)])

Groups(s) == IF s = <<>> THEN <<>> ELSE SplitOn(s, ":")

\* positions i where s[i..i+1] = "::"
Elisions(s) == { i \in 1..(Len(s) - 1) : s[i] = ":" /\ s[i + 1] = ":" }

Ipv6Addr_from_str(s) ==
    LET bad == [ok |-> FALSE, segs |-> <<>>]
        el  == Elisions(s)
    IN  IF el = {}
        THEN LET gs == Groups(s)
             IN  IF Len(gs) = 8 /\ \A i \in 1..8 : IsGroup(gs[i])
                 THEN [ok |-> TRUE, segs |-> [i \in 1..8 |-> GroupVal(gs[i])]]
                 ELSE bad
        ELSE IF Cardinality(el) > 1 THEN bad
        ELSE LET k    == CHOOSE i \in el : TRUE
                 head == Groups(SubSeq(s, 1, k - 1))
                 tail == Groups(SubSeq(s, k + 2, Len(s)))
                 n    == Len(head) + Len(tail)
             IN  IF /\ n <= 7
                    /\ \A i \in 1..Len(head) : IsGroup(head[i])
                    /\ \A i \in 1..Len(tail) : IsGroup(tail[i])
                 THEN [ok |-> TRUE,
                       segs |-> [i \in 1..8 |->
                                   IF i <= Len(head) THEN GroupVal(head[i])
                                   ELSE IF i <= 8 - Len(tail) THEN 0
                                   ELSE GroupVal(tail[i - (8 - Len(tail))])]]
                 ELSE bad

(***************************************************************************)
(* Ipv6Network::from_str: "<address>/<prefix>", prefix a u8 of at most 128 *)
(* The explored texts without a "/" hold no valid address, so they are     *)
(* rejected whether or not the library supplies a default prefix.          *)
(***************************************************************************)
RECURSIVE DecimalVal(_)
DecimalVal(t) == IF t = <<>> THEN 0 ELSE 10 * DecimalVal(SubSeq(t, 1, Len(t) - 1)) + DecVal(t[Len(t)])

IsDecimal(t) == Len(t) >= 1 /\ \A i \in 1..Len(t) : IsDecChar(t[i])

Ipv6Network_from_str(cidr) ==
    LET parts == SplitOn(cidr, "/")
        err(d) == [ok |-> FALSE, diag |-> d, ip |-> <<>>, prefix |-> 0]
    IN  IF Len(parts) # 2 THEN err("InvalidCidrFormat")
        ELSE LET a == Ipv6Addr_from_str(parts[1])
             IN  IF ~a.ok THEN err("InvalidAddr")
                 ELSE IF ~IsDecimal(parts[2]) THEN err("InvalidPrefix")
                 ELSE IF DecimalVal(parts[2]) > 255 THEN err("InvalidPrefix")
                 ELSE IF DecimalVal(parts[2]) > 128 THEN err("InvalidPrefix")
                 ELSE [ok |-> TRUE, diag |-> "", ip |-> a.segs, prefix |-> DecimalVal(parts[2])]

(***************************************************************************)
(* hash(name, len): Blake2b::new(len), input_str(name), result_str().      *)
(* The compression function is replaced by a fixed mixing of the name      *)
(* bytes and the output length (Blake2b's parameter block holds the output *)
(* length, so digests of different lengths are unrelated); the digest has  *)
(* len bytes and is rendered two lowercase hex characters per byte.        *)
(***************************************************************************)
RECURSIVE NameMix(_)
NameMix(name) == IF name = <<>> THEN 7 ELSE (31 * NameMix(SubSeq(name, 1, Len(name) - 1)) + name[Len(name)]) % 65521

\* Blake2b::new asserts 0 < outlen <= 64
Blake2bOk(len) == len > 0 /\ len <= 64

Blake2bDigest(name, len) ==
    [i \in 1..len |-> (NameMix(name) * 37 + len * 101 + i * i * 59 + i * 13) % 256]

result_str(digest) == Join([i \in 1..Len(digest) |-> Hex2(digest[i])])

hash(name, len) == result_str(Blake2bDigest(name, len))

(***************************************************************************)
(* Explored inputs.                                                        *)
(***************************************************************************)
RECURSIVE SeqsUpTo(_, _)
SeqsUpTo(S, n) ==
    IF n = 0 THEN { <<>> }
    ELSE SeqsUpTo(S, n - 1) \cup { Append(q, x) : q \in { r \in SeqsUpTo(S, n - 1) : Len(r) = n - 1 }, x \in S }

Names == SeqsUpTo(NameBytes, MaxNameLen)

\* n.to_string()
RECURSIVE DecText(_)
DecText(n) == IF n < 10 THEN << DecDigits[n + 1] >> ELSE DecText(n \div 10) \o << DecDigits[(n % 10) + 1] >>

\* fd52:f6b0:3162::
AddrElided == <<"f","d","5","2",":","f","6","b","0",":","3","1","6","2",":",":">>
\* fd52:f6b0:3162:9a7c:e5d3:8b41:F26E:a5c7
AddrFull ==
    <<"f","d","5","2",":","f","6","b","0",":","3","1","6","2",":","9","a","7","c",":",
      "e","5","d","3",":","8","b","4","1",":","F","2","6","E",":","a","5","c","7">>
\* ::1
AddrLoopback == <<":",":","1">>
\* not-a-cidr
AddrNoAddress == <<"n","o","t","-","a","-","c","i","d","r">>
\* fd52::3162::1
AddrTwoElisions == <<"f","d","5","2",":",":","3","1","6","2",":",":","1">>
\* fd52:f6b0
AddrTooShort == <<"f","d","5","2",":","f","6","b","0">>

ValidAddrTexts == { AddrElided, AddrFull, AddrLoopback }
BadAddrTexts == { AddrNoAddress, AddrTwoElisions, AddrTooShort }
BadPrefixTexts == { <<>>, <<"x">>, <<"2","5","6">>, <<"4","8","/","1">> }

CidrTexts ==
    { a \o <<"/">> \o DecText(p) : a \in ValidAddrTexts, p \in 0..MaxPrefixText }
      \cup { a \o <<"/">> \o t : a \in ValidAddrTexts, t \in BadPrefixTexts }
      \cup { a \o <<"/">> \o DecText(p) : a \in BadAddrTexts, p \in {48, 128} }
      \cup BadAddrTexts

(***************************************************************************)
(* State: the running call, the locals of ip and ip6, and the outcome.     *)
(***************************************************************************)
VARIABLES
    pc,             \* position of the running call
    name,           \* argument name
    cidr,           \* argument cidr
    net,            \* the parsed Ipv6Network: [ip, prefix]
    network_len,    \* line 33
    ip_hash,        \* line 41, the 32 character expansion of net.ip()
    network_hash,   \* line 43
    address_len,    \* line 49
    hash_is_bigger, \* line 53
    blake_len,      \* lines 54-57
    ip6_hash,       \* line 58, the local named hash
    address_hash,   \* lines 59-63
    ip_hash2,       \* line 64, the local that shadows ip_hash
    ip_text,        \* line 65, the local named ip
    result,         \* what the call returned
    hashCalls,      \* digests computed by the running call
    repeated,       \* the running call repeats the arguments of the previous one
    prevResult      \* what the previous call returned

vars == << pc, name, cidr, net, network_len, ip_hash, network_hash, address_len,
           hash_is_bigger, blake_len, ip6_hash, address_hash, ip_hash2, ip_text,
           result, hashCalls, repeated, prevResult >>

locals == << net, network_len, ip_hash, network_hash, address_len, hash_is_bigger,
             blake_len, ip6_hash, address_hash, ip_hash2, ip_text >>

NoNet == [ip |-> <<>>, prefix |-> 0]
NoResult == [kind |-> "none"]
Panic == [kind |-> "Panic"]

FreshLocals ==
    /\ net = NoNet
    /\ network_len = 0
    /\ ip_hash = <<>>
    /\ network_hash = <<>>
    /\ address_len = 0
    /\ hash_is_bigger = FALSE
    /\ blake_len = 0
    /\ ip6_hash = <<>>
    /\ address_hash = <<>>
    /\ ip_hash2 = <<>>
    /\ ip_text = <<>>

Init ==
    /\ pc = "idle"
    /\ name = <<>>
    /\ cidr = <<>>
    /\ FreshLocals
    /\ result = NoResult
    /\ hashCalls = 0
    /\ repeated = FALSE
    /\ prevResult = NoResult

(***************************************************************************)
(* The computations of ip and ip6.                                         *)
(***************************************************************************)
\* the test for a full address written as "longer than an address"
is_full_above(n) == n.prefix > FULL_PREFIX

\* line 17
is_full(n) == n.prefix = FULL_PREFIX

\* the prefix divided by the bits of a byte, not of a hex character
network_len_of_bytes(n) == n.prefix \div 8

\* line 33
network_len_of(n) == n.prefix \div BITS_PER_CHAR

\* lines 34-42
ip_hash_of(n) == Join([i \in 1..Len(n.ip) |-> Hex4(n.ip[i])])

\* line 49
address_len_of(nlen) == ADDRESS_CHARS - nlen

\* the parity test inverted
hash_is_bigger_of_even(alen) == alen % 2 = 0

\* line 53
hash_is_bigger_of(alen) == alen % 2 # 0

\* the digest length rounded down
blake_len_of_floor(alen) == alen \div 2

\* lines 54-57
blake_len_of(alen) == IF hash_is_bigger_of(alen) THEN (alen \div 2) + 1 ELSE alen \div 2

\* the surplus character dropped at the front: &hash[1..]
address_hash_of_tail(h, bigger) == IF bigger THEN Slice(h, 1, Len(h)) ELSE h

\* lines 59-63: &hash[..hash.len()] is the whole of hash
address_hash_of(h, bigger) == IF bigger THEN Slice(h, 0, Len(h)) ELSE h

\* lines 65-73: the slice ranges of the eight groups
GroupRanges == [i \in 1..8 |-> << 4 * (i - 1), 4 * i >>]

ip_text_of(h) ==
    Slice(h, 0, 4)   \o <<":">> \o Slice(h, 4, 8)   \o <<":">> \o
    Slice(h, 8, 12)  \o <<":">> \o Slice(h, 12, 16) \o <<":">> \o
    Slice(h, 16, 20) \o <<":">> \o Slice(h, 20, 24) \o <<":">> \o
    Slice(h, 24, 28) \o <<":">> \o Slice(h, 28, 32)

(***************************************************************************)
(* ip(name, cidr)                                                          *)
(***************************************************************************)
\* a caller calls ip
Call_ip ==
    /\ pc = "idle"
    /\ \E n \in Names, c \in CidrTexts : name' = n /\ cidr' = c
    /\ pc' = "ip_parse"
    /\ result' = NoResult
    /\ prevResult' = NoResult
    /\ repeated' = FALSE
    /\ hashCalls' = 0
    /\ UNCHANGED locals

\* a text that does not parse is taken as the empty network ::/0
ip_parse_lenient ==
    /\ pc = "ip_parse"
    /\ LET r == Ipv6Network_from_str(cidr)
       IN  net' = [ip |-> IF r.ok THEN r.ip ELSE [i \in 1..8 |-> 0], prefix |-> r.prefix]
    /\ pc' = "ip_check"
    /\ UNCHANGED << name, cidr, network_len, ip_hash, network_hash, address_len,
                    hash_is_bigger, blake_len, ip6_hash, address_hash, ip_hash2,
                    ip_text, result, hashCalls, repeated, prevResult >>

\* line 15 and line 25
ip_parse ==
    /\ pc = "ip_parse"
    /\ LET r == Ipv6Network_from_str(cidr)
       IN  IF r.ok
           THEN /\ net' = [ip |-> r.ip, prefix |-> r.prefix]
                /\ pc' = "ip_check"
                /\ UNCHANGED result
           ELSE /\ result' = [kind |-> "InvalidNetwork", diag |-> r.diag]
                /\ pc' = "done"
                /\ UNCHANGED net
    /\ UNCHANGED << name, cidr, network_len, ip_hash, network_hash, address_len,
                    hash_is_bigger, blake_len, ip6_hash, address_hash, ip_hash2,
                    ip_text, hashCalls, repeated, prevResult >>

\* lines 16-24
ip_check ==
    /\ pc = "ip_check"
    /\ IF is_full(net)
       THEN /\ result' = [kind |-> "AlreadyFullAddress", ip |-> net.ip, prefix |-> net.prefix]
            /\ pc' = "done"
       ELSE /\ pc' = "ip6_network"
            /\ UNCHANGED result
    /\ UNCHANGED << name, cidr, hashCalls, repeated, prevResult >>
    /\ UNCHANGED locals

(***************************************************************************)
(* ip6(name, net)                                                          *)
(***************************************************************************)
\* lines 33-43
ip6_network ==
    /\ pc = "ip6_network"
    /\ network_len' = network_len_of(net)
    /\ ip_hash' = ip_hash_of(net)
    /\ IF SliceOk(ip_hash', 0, network_len')
       THEN /\ network_hash' = Slice(ip_hash', 0, network_len')
            /\ pc' = "ip6_length"
            /\ UNCHANGED result
       ELSE /\ pc' = "done"
            /\ result' = Panic
            /\ UNCHANGED network_hash
    /\ UNCHANGED << name, cidr, net, address_len, hash_is_bigger, blake_len, ip6_hash,
                    address_hash, ip_hash2, ip_text, hashCalls, repeated, prevResult >>

\* lines 49-57
ip6_length ==
    /\ pc = "ip6_length"
    /\ address_len' = address_len_of(network_len)
    /\ hash_is_bigger' = hash_is_bigger_of(address_len')
    /\ blake_len' = blake_len_of(address_len')
    /\ pc' = "ip6_hash"
    /\ UNCHANGED << name, cidr, net, network_len, ip_hash, network_hash, ip6_hash,
                    address_hash, ip_hash2, ip_text, result, hashCalls, repeated, prevResult >>

\* a hasher kept between calls and not reset: the second call hashes
\* the name after the input of the first
ip6_digest_kept ==
    /\ pc = "ip6_hash"
    /\ hashCalls' = hashCalls + 1
    /\ IF Blake2bOk(blake_len)
       THEN /\ ip6_hash' = hash(IF repeated THEN name \o name ELSE name, blake_len)
            /\ pc' = "ip6_address"
            /\ UNCHANGED result
       ELSE /\ pc' = "done"
            /\ result' = Panic
            /\ UNCHANGED ip6_hash
    /\ UNCHANGED << name, cidr, net, network_len, ip_hash, network_hash, address_len,
                    hash_is_bigger, blake_len, address_hash, ip_hash2, ip_text,
                    repeated, prevResult >>

\* line 58
ip6_digest ==
    /\ pc = "ip6_hash"
    /\ hashCalls' = hashCalls + 1
    /\ IF Blake2bOk(blake_len)
       THEN /\ ip6_hash' = hash(name, blake_len)
            /\ pc' = "ip6_address"
            /\ UNCHANGED result
       ELSE /\ pc' = "done"
            /\ result' = Panic
            /\ UNCHANGED ip6_hash
    /\ UNCHANGED << name, cidr, net, network_len, ip_hash, network_hash, address_len,
                    hash_is_bigger, blake_len, address_hash, ip_hash2, ip_text,
                    repeated, prevResult >>

\* lines 59-64
ip6_concat ==
    /\ pc = "ip6_address"
    /\ address_hash' = address_hash_of(ip6_hash, hash_is_bigger)
    /\ ip_hash2' = network_hash \o address_hash'
    /\ pc' = "ip6_format"
    /\ UNCHANGED << name, cidr, net, network_len, ip_hash, network_hash, address_len,
                    hash_is_bigger, blake_len, ip6_hash, ip_text, result, hashCalls,
                    repeated, prevResult >>

\* lines 65-73
ip6_format ==
    /\ pc = "ip6_format"
    /\ IF \A i \in 1..8 : SliceOk(ip_hash2, GroupRanges[i][1], GroupRanges[i][2])
       THEN /\ ip_text' = ip_text_of(ip_hash2)
            /\ pc' = "ip6_parse"
            /\ UNCHANGED result
       ELSE /\ pc' = "done"
            /\ result' = Panic
            /\ UNCHANGED ip_text
    /\ UNCHANGED << name, cidr, net, network_len, ip_hash, network_hash, address_len,
                    hash_is_bigger, blake_len, ip6_hash, address_hash, ip_hash2,
                    hashCalls, repeated, prevResult >>

\* lines 74-75
ip6_parse ==
    /\ pc = "ip6_parse"
    /\ LET r == Ipv6Addr_from_str(ip_text)
       IN  result' = IF r.ok THEN [kind |-> "Ok", addr |-> r.segs]
                     ELSE [kind |-> "AssemblyError", text |-> ip_text]
    /\ pc' = "done"
    /\ UNCHANGED << name, cidr, hashCalls, repeated, prevResult >>
    /\ UNCHANGED locals

(***************************************************************************)
(* subnet(name)                                                            *)
(***************************************************************************)
\* a caller calls subnet
Call_subnet ==
    /\ pc = "idle"
    /\ \E n \in Names : name' = n
    /\ cidr' = <<>>
    /\ pc' = "subnet"
    /\ result' = NoResult
    /\ prevResult' = NoResult
    /\ repeated' = FALSE
    /\ hashCalls' = 0
    /\ UNCHANGED locals

\* the length given in characters, not in bytes
subnet_chars ==
    /\ pc = "subnet"
    /\ hashCalls' = hashCalls + 1
    /\ ip6_hash' = hash(name, 2 * SUBNET_BYTES)
    /\ result' = [kind |-> "Str", str |-> ip6_hash']
    /\ pc' = "subnet_done"
    /\ UNCHANGED << name, cidr, net, network_len, ip_hash, network_hash, address_len,
                    hash_is_bigger, blake_len, address_hash, ip_hash2, ip_text,
                    repeated, prevResult >>

\* lines 79-81
subnet ==
    /\ pc = "subnet"
    /\ hashCalls' = hashCalls + 1
    /\ IF Blake2bOk(SUBNET_BYTES)
       THEN /\ ip6_hash' = hash(name, SUBNET_BYTES)
            /\ result' = [kind |-> "Str", str |-> ip6_hash']
       ELSE /\ result' = Panic
            /\ UNCHANGED ip6_hash
    /\ pc' = "subnet_done"
    /\ UNCHANGED << name, cidr, net, network_len, ip_hash, network_hash, address_len,
                    hash_is_bigger, blake_len, address_hash, ip_hash2, ip_text,
                    repeated, prevResult >>

(***************************************************************************)
(* The call returns: its locals are dropped. The caller may then call      *)
(* again with the same arguments.                                          *)
(***************************************************************************)
Return ==
    /\ pc \in {"done", "subnet_done"}
    /\ pc' = "idle"
    /\ net' = NoNet
    /\ network_len' = 0
    /\ ip_hash' = <<>>
    /\ network_hash' = <<>>
    /\ address_len' = 0
    /\ hash_is_bigger' = FALSE
    /\ blake_len' = 0
    /\ ip6_hash' = <<>>
    /\ address_hash' = <<>>
    /\ ip_hash2' = <<>>
    /\ ip_text' = <<>>
    /\ result' = NoResult
    /\ prevResult' = NoResult
    /\ repeated' = FALSE
    /\ hashCalls' = 0
    /\ name' = <<>>
    /\ cidr' = <<>>

Repeat ==
    /\ pc \in {"done", "subnet_done"}
    /\ ~repeated
    /\ pc' = IF pc = "done" THEN "ip_parse" ELSE "subnet"
    /\ net' = NoNet
    /\ network_len' = 0
    /\ ip_hash' = <<>>
    /\ network_hash' = <<>>
    /\ address_len' = 0
    /\ hash_is_bigger' = FALSE
    /\ blake_len' = 0
    /\ ip6_hash' = <<>>
    /\ address_hash' = <<>>
    /\ ip_hash2' = <<>>
    /\ ip_text' = <<>>
    /\ prevResult' = result
    /\ result' = NoResult
    /\ repeated' = TRUE
    /\ hashCalls' = 0
    /\ UNCHANGED << name, cidr >>

Next ==
    \/ Call_ip
    \/ ip_parse
    \/ ip_check
    \/ ip6_network
    \/ ip6_length
    \/ ip6_digest
    \/ ip6_concat
    \/ ip6_format
    \/ ip6_parse
    \/ Call_subnet
    \/ subnet
    \/ Return
    \/ Repeat

Spec == Init /\ [][Next]_vars

(***************************************************************************)
(* Vocabulary of the properties.                                           *)
(***************************************************************************)
\* what the library makes of the cidr argument of the running call
Parsed == Ipv6Network_from_str(cidr)

InIp == pc \in {"ip_parse", "ip_check", "ip6_network", "ip6_length", "ip6_hash",
                "ip6_address", "ip6_format", "ip6_parse", "done"}

\* the running call is ip on a network with prefix 0..127
ValidCall == InIp /\ Parsed.ok /\ Parsed.prefix \in 0..127

\* the running call is ip on a network with prefix 128
FullCall == InIp /\ Parsed.ok /\ Parsed.prefix = 128

\* the running call is ip on a text that is no network
InvalidCall == InIp /\ ~Parsed.ok

Returned == pc = "done" /\ result.kind = "Ok"

\* the 32 lowercase hex digits of an address
Expansion(segs) == Join([i \in 1..8 |-> Hex4(segs[i])])

\* bit i (0 the most significant) of an address
Bit(segs, i) == (segs[(i \div 16) + 1] \div Pow2(15 - (i % 16))) % 2

IsLowerHex(c) == \E i \in 1..16 : LowerHex[i] = c

\* eight groups of exactly four hex digits, separated by colons
WellGrouped(t) ==
    /\ Len(t) = 39
    /\ \A i \in 1..39 : IF i % 5 = 0 THEN t[i] = ":" ELSE IsHexChar(t[i])

CeilHalf(n) == (n + 1) \div 2

(***************************************************************************)
(* C1: the first floor(p/4) hex digits of the returned address are the     *)
(* first floor(p/4) hex digits of the network's base address.              *)
(***************************************************************************)
C1_PrefixPreservation ==
    (Returned /\ ValidCall) =>
        LET n == Parsed.prefix \div 4
        IN  SubSeq(Expansion(result.addr), 1, n) = SubSeq(Expansion(Parsed.ip), 1, n)

\* an address was returned for a network with a prefix, and differs from the base
C1_Witness ==
    /\ Returned /\ ValidCall
    /\ Parsed.prefix \div 4 >= 12
    /\ result.addr # Parsed.ip

(***************************************************************************)
(* C2: the leading p bits of the returned address are the leading p bits   *)
(* of the network's base address, also when p is no multiple of 4.         *)
(***************************************************************************)
C2_PrefixBitsPreserved ==
    (Returned /\ ValidCall) =>
        \A i \in 0..(Parsed.prefix - 1) : Bit(result.addr, i) = Bit(Parsed.ip, i)

(***************************************************************************)
(* C3: on a network with prefix 0..127 the call succeeds: no slice is out  *)
(* of bounds, the final parse does not fail, and the text handed to it is  *)
(* eight colon separated groups of exactly four hex digits.                *)
(***************************************************************************)
C3_ValidAndTotal ==
    ValidCall =>
        /\ result.kind \notin {"Panic", "AssemblyError"}
        /\ pc \in {"ip6_parse", "done"} => WellGrouped(ip_text)
        /\ pc = "done" => result.kind = "Ok"

\* the call of the repository's test returned: a /48 network
C3_Witness == Returned /\ ValidCall /\ Parsed.prefix = 48 /\ WellGrouped(ip_text)

(***************************************************************************)
(* C4: on a network with prefix 128 the call fails with AlreadyFullAddress *)
(* carrying the address and the prefix; no digest is computed and no       *)
(* address returned.                                                       *)
(***************************************************************************)
C4_FullAddressRejected ==
    FullCall =>
        /\ hashCalls = 0
        /\ pc \in {"ip_parse", "ip_check", "done"}
        /\ pc = "done" =>
             result = [kind |-> "AlreadyFullAddress", ip |-> Parsed.ip, prefix |-> 128]

C4_Witness == FullCall /\ pc = "done" /\ result.kind = "AlreadyFullAddress"

(***************************************************************************)
(* C5: hex digits network_len..31 of the returned address are the first    *)
(* host_len digits of the rendered digest of name; with an odd host_len    *)
(* the digit left out is the last of the rendering.                        *)
(***************************************************************************)
C5_HostRegion ==
    (Returned /\ ValidCall) =>
        LET nlen == Parsed.prefix \div 4
            hlen == 32 - nlen
            d    == result_str(Blake2bDigest(name, CeilHalf(hlen)))
        IN  SubSeq(Expansion(result.addr), nlen + 1, 32) = SubSeq(d, 1, hlen)

\* an address was returned with an odd host_len, its digest's first and last digit differ
C5_Witness ==
    /\ Returned /\ ValidCall
    /\ (32 - (Parsed.prefix \div 4)) % 2 = 1
    /\ ip6_hash[1] # ip6_hash[Len(ip6_hash)]

(***************************************************************************)
(* C6: the concatenation of the network region and the host region, before *)
(* it is re-grouped, has exactly 32 hex digits.                            *)
(***************************************************************************)
C6_ConcatenationLength ==
    (ValidCall /\ pc = "ip6_format") => Len(ip_hash2) = 32

C8_InvalidNetworkRejected ==
    /\ InvalidCall =>
         /\ hashCalls = 0
         /\ pc \in {"ip_parse", "done"}
         /\ pc = "done" => result = [kind |-> "InvalidNetwork", diag |-> Parsed.diag]
    /\ pc = "done" =>
         /\ result.kind \in {"Ok", "InvalidNetwork", "AlreadyFullAddress", "AssemblyError"}
         /\ result.kind = "Ok" =>
              Len(result.addr) = 8 /\ \A i \in 1..8 : result.addr[i] \in 0..65535

\* a text with a bad address and /128 was rejected as no network
C8_Witness ==
    /\ pc = "done"
    /\ cidr = AddrNoAddress \o <<"/">> \o DecText(128)
    /\ result.kind = "InvalidNetwork"

(***************************************************************************)
(* C9: subnet asks for a 2 byte digest of name and returns its rendering,  *)
(* exactly 4 lowercase hex characters; it does not fail.                   *)
(***************************************************************************)
C9_SubnetFormat ==
    pc = "subnet_done" =>
        /\ result.kind = "Str"
        /\ result.str = result_str(Blake2bDigest(name, 2))
        /\ Len(result.str) = 4
        /\ \A i \in 1..Len(result.str) : IsLowerHex(result.str[i])
        /\ hashCalls = 1

C9_Witness == pc = "subnet_done" /\ result.kind = "Str" /\ name # <<>>

(***************************************************************************)
(* C10: network_len = floor(p/4) is in 0..31, address_len = 32 -           *)
(* network_len is in 1..32, the digest length asked for is                 *)
(* ceil(address_len/2), in 1..16, and the rendered digest has one digit    *)
(* more than address_len when address_len is odd, none when it is even.    *)
(***************************************************************************)
C10_RegionSplit ==
    /\ (ValidCall /\ pc \in {"ip6_hash", "ip6_address", "ip6_format", "ip6_parse"}) =>
         /\ network_len = Parsed.prefix \div 4
         /\ network_len \in 0..31
         /\ address_len \in 1..32
         /\ network_len + address_len = 32
         /\ blake_len = CeilHalf(address_len)
         /\ blake_len \in 1..16
    /\ (ValidCall /\ pc \in {"ip6_address", "ip6_format", "ip6_parse"}) =>
         /\ Len(ip6_hash) = 2 * blake_len
         /\ Len(ip6_hash) >= address_len
         /\ Len(ip6_hash) - address_len = (IF address_len % 2 = 1 THEN 1 ELSE 0)

\* a digest with a surplus digit was computed
C10_Witness ==
    /\ ValidCall /\ pc = "ip6_address"
    /\ address_len % 2 = 1
    /\ Len(ip6_hash) = address_len + 1

====
